---- MODULE Spec2Model ----
(***************************************************************************)
(* Session / token lifecycle of the trading front end (src/src/auth.rs).   *)
(*                                                                         *)
(* The token store keeps two records: the JSON text of the token bundle    *)
(* (TOKEN_STORAGE_KEY / auth_tokens.json) and the decimal text of the      *)
(* expiry time (TOKEN_EXPIRY_KEY / auth_expiry.txt).  Two media exist,     *)
(* selected by cfg(target_arch): browser localStorage ("web") and two      *)
(* files in the application data directory ("file").                       *)
(*                                                                         *)
(* Fault model.  Whether the medium can be reached at all (a window with   *)
(* localStorage, a resolvable data directory) is a property of the         *)
(* environment, fixed when the process starts.  A write or a removal of a  *)
(* record may fail on any call (quota exceeded, disk full, permissions):   *)
(* these are the Results the code maps with map_err.  The async functions  *)
(* of auth.rs contain no suspension point besides calls to each other, so  *)
(* login, logout and the startup load each run as one step.                *)
(*                                                                         *)
(* Two specifications.  Spec is the session layer alone: AuthContext and   *)
(* the token store, with login and logout called by any client and no view *)
(* mounted.  App is the application as main.rs wires it: the three routes, *)
(* the effects of the views (the guards), the login form and its task, and *)
(* the logout button, on top of the same session layer.                    *)
(***************************************************************************)
EXTENDS Integers, Sequences, FiniteSets, TLC

VARIABLES
    medium,       \* "web" | "file": the cfg(target_arch) the binary was built for
    available,    \* get_local_storage() / get_app_data_dir() returns Ok
    state,        \* AuthContext.state : Signal<AuthState>
    tokensRec,    \* Option of the text under TOKEN_STORAGE_KEY / auth_tokens.json
    expiryRec,    \* Option of the text under TOKEN_EXPIRY_KEY / auth_expiry.txt
    now,          \* wall clock (ms on web, s on file), relative to first start
    initPending,  \* the startup task of AuthProvider is spawned and has not run
    logoutTasks,  \* number of spawned handle_logout tasks that have not run
    lastOp,       \* observation: the last operation, its argument, result and time
    route,        \* the route the Router shows; NoRoute when no view is mounted
    effectPending,\* the use_effect of the mounted view is scheduled to run
    formLoading,  \* Login.is_loading : Signal<bool>
    errorMessage, \* Login.error_message : Signal<Option<String>>
    loginTasks    \* the login tasks spawned by the form and awaiting login_server

ui == <<route, effectPending, formLoading, errorMessage, loginTasks>>

vars == <<medium, available, state, tokensRec, expiryRec, now, initPending,
          logoutTasks, lastOp, route, effectPending, formLoading, errorMessage,
          loginTasks>>

(***************************************************************************)
(* Bounds of the model.                                                    *)
(***************************************************************************)
MaxTicks == 2          \* clock advances explored
MaxLogoutTasks == 2    \* logout clicks queued before their tasks run
MaxLoginTasks == 2     \* login tasks in flight

(***************************************************************************)
(* Option values: <<>> is None, <<x>> is Some(x).                          *)
(***************************************************************************)
None == <<>>
Some(x) == <<x>>
IsSome(o) == o # <<>>

(***************************************************************************)
(* AuthTokens and AuthState.                                               *)
(***************************************************************************)
FieldNames == <<"jwt_token", "refresh_token", "feed_token", "user_id">>

AuthTokens(j, r, f, u) ==
    [jwt_token |-> j, refresh_token |-> r, feed_token |-> f, user_id |-> u]

Bundle1 == AuthTokens("a", "b", "c", "u1")
Bundle2 == AuthTokens("a2", "b", "c", "u2")

\* The bundles the authentication endpoint may hand to login: two well-formed
\* ones, one with an empty jwt_token and one with an empty user_id.
Bundles ==
    {Bundle1, Bundle2} \cup
    {[Bundle1 EXCEPT ![FieldNames[i]] = ""] : i \in {1, 4}}

Loading == [tag |-> "Loading", tokens |-> None]
Unauthenticated == [tag |-> "Unauthenticated", tokens |-> None]
Authenticated(t) == [tag |-> "Authenticated", tokens |-> Some(t)]

is_authenticated(st) == st.tag = "Authenticated"
is_loading(st) == st.tag = "Loading"
get_tokens(st) == IF st.tag = "Authenticated" THEN st.tokens ELSE None

\* The check validate_and_get_tokens applies to a bundle.
AllFieldsNonEmpty(t) ==
    /\ t.jwt_token # ""
    /\ t.refresh_token # ""
    /\ t.feed_token # ""
    /\ t.user_id # ""

(***************************************************************************)
(* Record texts.  A text is a sequence of lexemes (strings).  The bundle   *)
(* record holds the JSON object serde_json writes for AuthTokens; the      *)
(* expiry record holds the decimal digits of a time.                       *)
(***************************************************************************)
\* Mutant of to_json: the refresh and feed tokens written under each other's
\* key.
to_json_crossed(t) ==
    <<"{", "jwt_token", t.jwt_token, "refresh_token", t.feed_token,
      "feed_token", t.refresh_token, "user_id", t.user_id, "}">>

\* serde_json::to_string(tokens): the object with the four fields in
\* declaration order.
to_json(t) ==
    <<"{", "jwt_token", t.jwt_token, "refresh_token", t.refresh_token,
      "feed_token", t.feed_token, "user_id", t.user_id, "}">>

\* The positions of the key `name` in an object text.
KeyPositions(text, name) ==
    {i \in 2..(Len(text) - 1) : i % 2 = 0 /\ text[i] = name}

\* serde_json::from_str::<AuthTokens>(text): None on any parse error (not an
\* object, a missing or a duplicated field); unknown keys are skipped.
from_json(text) ==
    IF /\ Len(text) >= 2
       /\ text[1] = "{"
       /\ text[Len(text)] = "}"
       /\ Len(text) % 2 = 0
       /\ \A k \in 1..4 : Cardinality(KeyPositions(text, FieldNames[k])) = 1
    THEN LET val(name) == text[(CHOOSE i \in KeyPositions(text, name) : TRUE) + 1]
         IN  Some(AuthTokens(val("jwt_token"), val("refresh_token"),
                             val("feed_token"), val("user_id")))
    ELSE None

DigitChars == <<"0", "1", "2", "3", "4", "5", "6", "7", "8", "9">>

\* expiry.to_string(): the decimal digits of a non-negative whole number
\* (u64 on file; an f64 holding a whole number of milliseconds on web).
RECURSIVE to_string(_)
to_string(n) ==
    IF n < 10 THEN <<DigitChars[n + 1]>>
    ELSE to_string(n \div 10) \o <<DigitChars[(n % 10) + 1]>>

IsDigit(c) == \E d \in 1..10 : DigitChars[d] = c
DigitValue(c) == (CHOOSE d \in 1..10 : DigitChars[d] = c) - 1

RECURSIVE DigitsValue(_)
DigitsValue(text) ==
    IF Len(text) = 0 THEN 0
    ELSE 10 * DigitsValue(SubSeq(text, 1, Len(text) - 1)) + DigitValue(text[Len(text)])

\* expiry_str.parse::<u64>() / parse::<f64>(): None when the text is empty or
\* holds anything but digits.
parse_expiry(text) ==
    IF Len(text) > 0 /\ \A i \in 1..Len(text) : IsDigit(text[i])
    THEN Some(DigitsValue(text))
    ELSE None

\* "24 hours from now", in the unit of the medium's clock.
ExpiryWindow(m) == IF m = "web" THEN 24 * 60 * 60 * 1000 ELSE 24 * 60 * 60

\* Texts that are neither a bundle object nor a number.
NotJson == <<"not-json">>
Truncated == <<>>

(***************************************************************************)
(* The medium's primitives.  `fails` is the environment's choice for the   *)
(* call.                                                                   *)
(***************************************************************************)
\* fs::write(path, text): creates or truncates the file, then writes.  A
\* failure leaves the file as it was (open failed) or truncated.
fs_write(rec, text, outcome) ==
    CASE outcome = "ok" -> [rec |-> Some(text), ok |-> TRUE]
      [] outcome = "trunc" -> [rec |-> Some(Truncated), ok |-> FALSE]
      [] OTHER -> [rec |-> rec, ok |-> FALSE]

\* fs::remove_file(path): an error when the file does not exist.
fs_remove_file(rec, fails) ==
    IF IsSome(rec) /\ ~fails THEN [rec |-> None, ok |-> TRUE]
    ELSE [rec |-> rec, ok |-> FALSE]

\* Storage::set_item(key, text): all or nothing.
set_item(rec, text, fails) ==
    IF fails THEN [rec |-> rec, ok |-> FALSE] ELSE [rec |-> Some(text), ok |-> TRUE]

\* Storage::remove_item(key): removing an absent key does nothing.
remove_item(rec, fails) ==
    IF IsSome(rec) /\ fails THEN [rec |-> rec, ok |-> FALSE]
    ELSE [rec |-> None, ok |-> TRUE]

(***************************************************************************)
(* The token store.  A store value s is [tokens, expiry]: the two records. *)
(* Each operation takes the environment's choice `fault` for the call and  *)
(* returns the store it leaves and its result ("ok" or the error message). *)
(***************************************************************************)
PersistFaults(m) ==
    IF m = "web" THEN {"none", "tokens", "expiry"}
    ELSE {"none", "dir", "tokens", "tokens_trunc", "expiry", "expiry_trunc"}

RemoveFaults == {"none", "rm_tokens", "rm_expiry", "rm_both"}

WriteOutcome(fault, plain, trunc) ==
    IF fault = plain THEN "fail" ELSE IF fault = trunc THEN "trunc" ELSE "ok"

\* store_tokens_file: the data directory, then the tokens file, then the
\* expiry file; the first error returns.
store_tokens_file(avail, s, tokens, t, fault) ==
    IF ~avail THEN [store |-> s, res |-> "Failed to determine app data directory"]
    ELSE IF fault = "dir" THEN [store |-> s, res |-> "Failed to create app directory"]
    ELSE
      LET w1 == fs_write(s.tokens, to_json(tokens),
                         WriteOutcome(fault, "tokens", "tokens_trunc"))
          s1 == [s EXCEPT !.tokens = w1.rec]
          expiry == t + (24 * 60 * 60)
          w2 == fs_write(s.expiry, to_string(expiry),
                         WriteOutcome(fault, "expiry", "expiry_trunc"))
      IN  IF ~w1.ok THEN [store |-> s1, res |-> "Failed to write tokens file"]
          ELSE IF ~w2.ok
               THEN [store |-> [s1 EXCEPT !.expiry = w2.rec],
                     res |-> "Failed to write expiry file"]
          ELSE [store |-> [s1 EXCEPT !.expiry = w2.rec], res |-> "ok"]

\* store_auth_tokens on wasm32: localStorage, the tokens item, then the expiry
\* item; the first error returns.
store_tokens_web(avail, s, tokens, t, fault) ==
    IF ~avail THEN [store |-> s, res |-> "localStorage not available"]
    ELSE
      LET w1 == set_item(s.tokens, to_json(tokens), fault = "tokens")
          s1 == [s EXCEPT !.tokens = w1.rec]
          expiry == t + (24 * 60 * 60 * 1000)
          w2 == set_item(s.expiry, to_string(expiry), fault = "expiry")
      IN  IF ~w1.ok THEN [store |-> s1, res |-> "Failed to store tokens"]
          ELSE IF ~w2.ok
               THEN [store |-> s1, res |-> "Failed to store token expiry"]
          ELSE [store |-> [s1 EXCEPT !.expiry = w2.rec], res |-> "ok"]

store_auth_tokens(m, avail, s, tokens, t, fault) ==
    IF m = "web" THEN store_tokens_web(avail, s, tokens, t, fault)
    ELSE store_tokens_file(avail, s, tokens, t, fault)

\* clear_auth_tokens_internal: remove the tokens item, then the expiry item;
\* the first error returns.
clear_auth_tokens_internal(s, fault) ==
    LET r1 == remove_item(s.tokens, fault \in {"rm_tokens", "rm_both"})
        s1 == [s EXCEPT !.tokens = r1.rec]
        r2 == remove_item(s.expiry, fault \in {"rm_expiry", "rm_both"})
    IN  IF ~r1.ok THEN [store |-> s1, res |-> "Failed to clear tokens"]
        ELSE IF ~r2.ok THEN [store |-> s1, res |-> "Failed to clear token expiry"]
        ELSE [store |-> [s1 EXCEPT !.expiry = r2.rec], res |-> "ok"]

\* Mutant of clear_tokens_file: the files are removed without the exists()
\* tests.
clear_tokens_file_unguarded(avail, s, fault) ==
    IF ~avail THEN [store |-> s, res |-> "Failed to determine app data directory"]
    ELSE
      LET r1 == fs_remove_file(s.tokens, fault \in {"rm_tokens", "rm_both"})
          s1 == [s EXCEPT !.tokens = r1.rec]
          r2 == fs_remove_file(s.expiry, fault \in {"rm_expiry", "rm_both"})
      IN  IF ~r1.ok THEN [store |-> s1, res |-> "Failed to remove tokens file"]
          ELSE IF ~r2.ok THEN [store |-> s1, res |-> "Failed to remove expiry file"]
          ELSE [store |-> [s1 EXCEPT !.expiry = r2.rec], res |-> "ok"]

\* clear_tokens_file: each file is removed only if it exists; the first error
\* returns.
clear_tokens_file(avail, s, fault) ==
    IF ~avail THEN [store |-> s, res |-> "Failed to determine app data directory"]
    ELSE
      LET r1 == IF IsSome(s.tokens)
                THEN fs_remove_file(s.tokens, fault \in {"rm_tokens", "rm_both"})
                ELSE [rec |-> s.tokens, ok |-> TRUE]
          s1 == [s EXCEPT !.tokens = r1.rec]
          r2 == IF IsSome(s.expiry)
                THEN fs_remove_file(s.expiry, fault \in {"rm_expiry", "rm_both"})
                ELSE [rec |-> s.expiry, ok |-> TRUE]
      IN  IF ~r1.ok THEN [store |-> s1, res |-> "Failed to remove tokens file"]
          ELSE IF ~r2.ok THEN [store |-> s1, res |-> "Failed to remove expiry file"]
          ELSE [store |-> [s1 EXCEPT !.expiry = r2.rec], res |-> "ok"]

clear_auth_tokens(m, avail, s, fault) ==
    IF m = "web"
    THEN IF ~avail THEN [store |-> s, res |-> "localStorage not available"]
         ELSE clear_auth_tokens_internal(s, fault)
    ELSE clear_tokens_file(avail, s, fault)

\* Mutant of is_expired: the marker's own instant counts as expired.
is_expired_at_marker(t, expiry) == t >= expiry

\* Mutant of is_expired: the comparison turned around.
is_expired_reversed(t, expiry) == t < expiry

\* The expiry test of both loaders: `now > expiry`.
is_expired(t, expiry) == t > expiry

\* load_tokens_file: the expiry file, if it exists, is read and parsed first
\* (an error returns); expired tokens are removed, the results of the two
\* removals dropped.  Then the tokens file is read and parsed.
load_tokens_file(avail, s, t, fault) ==
    LET fail(st, msg) == [store |-> st, res |-> msg, tokens |-> None]
        marker == IF IsSome(s.expiry) THEN parse_expiry(s.expiry[1]) ELSE None
        parsed == IF IsSome(s.tokens) THEN from_json(s.tokens[1]) ELSE None
    IN  IF ~avail THEN fail(s, "Failed to determine app data directory")
        ELSE IF IsSome(s.expiry) /\ ~IsSome(marker)
             THEN fail(s, "Failed to parse expiry")
        ELSE IF IsSome(s.expiry) /\ is_expired(t, marker[1])
             THEN LET r1 == fs_remove_file(s.tokens, fault \in {"rm_tokens", "rm_both"})
                      r2 == fs_remove_file(s.expiry, fault \in {"rm_expiry", "rm_both"})
                  IN  fail([tokens |-> r1.rec, expiry |-> r2.rec], "Tokens expired")
        ELSE IF ~IsSome(s.tokens) THEN fail(s, "No tokens file found")
        ELSE IF ~IsSome(parsed) THEN fail(s, "Failed to parse tokens")
        ELSE [store |-> s, res |-> "ok", tokens |-> parsed]

\* load_auth_from_storage on wasm32: a present, parsable and passed expiry
\* clears the store; otherwise the tokens item, if present, is parsed, and a
\* parse error clears the store.  The result of the clearing is dropped.
load_auth_web(avail, s, t, fault) ==
    LET marker == IF IsSome(s.expiry) THEN parse_expiry(s.expiry[1]) ELSE None
        parsed == IF IsSome(s.tokens) THEN from_json(s.tokens[1]) ELSE None
        cleared == clear_auth_tokens_internal(s, fault).store
    IN  IF ~avail
        THEN [store |-> s, state |-> Unauthenticated, log |-> "Failed to access storage"]
        ELSE IF IsSome(marker) /\ is_expired(t, marker[1])
             THEN [store |-> cleared, state |-> Unauthenticated,
                   log |-> "Tokens expired, clearing storage"]
        ELSE IF IsSome(s.tokens) /\ IsSome(parsed)
             THEN [store |-> s, state |-> Authenticated(parsed[1]),
                   log |-> "Loaded valid tokens from storage"]
        ELSE IF IsSome(s.tokens)
             THEN [store |-> cleared, state |-> Unauthenticated,
                   log |-> "Failed to parse stored tokens"]
        ELSE [store |-> s, state |-> Unauthenticated, log |-> ""]

\* load_auth_from_storage off wasm32: the file loader's Ok is Authenticated,
\* its Err is logged and gives Unauthenticated.
load_auth_file(avail, s, t, fault) ==
    LET r == load_tokens_file(avail, s, t, fault)
    IN  IF r.res = "ok"
        THEN [store |-> r.store, state |-> Authenticated(r.tokens[1]), log |-> ""]
        ELSE [store |-> r.store, state |-> Unauthenticated, log |-> r.res]

load_auth_from_storage(m, avail, s, t, fault) ==
    IF m = "web" THEN load_auth_web(avail, s, t, fault)
    ELSE load_auth_file(avail, s, t, fault)

(***************************************************************************)
(* AuthContext.  Each operation returns the session state and the store it *)
(* leaves and the Result it hands to its caller.                           *)
(***************************************************************************)
\* Mutant of login: the state is set whatever store_auth_tokens returns.
login_sets_state_anyway(m, avail, st, s, tokens, t, fault) ==
    LET r == store_auth_tokens(m, avail, s, tokens, t, fault)
    IN  [state |-> Authenticated(tokens), store |-> r.store, res |-> r.res]

\* AuthContext::login: `store_auth_tokens(&tokens).await?`, then the state is
\* set.
login(m, avail, st, s, tokens, t, fault) ==
    LET r == store_auth_tokens(m, avail, s, tokens, t, fault)
    IN  IF r.res # "ok" THEN [state |-> st, store |-> r.store, res |-> r.res]
        ELSE [state |-> Authenticated(tokens), store |-> r.store, res |-> "ok"]

\* Mutant of logout: the state goes back to Loading.
logout_to_loading(m, avail, st, s, fault) ==
    LET r == clear_auth_tokens(m, avail, s, fault)
    IN  IF r.res # "ok" THEN [state |-> st, store |-> r.store, res |-> r.res]
        ELSE [state |-> Loading, store |-> r.store, res |-> "ok"]

\* AuthContext::logout: `clear_auth_tokens().await?`, then the state is set.
logout(m, avail, st, s, fault) ==
    LET r == clear_auth_tokens(m, avail, s, fault)
    IN  IF r.res # "ok" THEN [state |-> st, store |-> r.store, res |-> r.res]
        ELSE [state |-> Unauthenticated, store |-> r.store, res |-> "ok"]

(***************************************************************************)
(* The views.  NoRoute: no view is mounted.  Each view registers one       *)
(* use_effect that reads the session state: the scheduler runs it once     *)
(* after the view is mounted and again after every state.set.              *)
(***************************************************************************)
NoRoute == "none"
Routes == {"/", "/dashboard", "/login"}

\* Mutant of use_require_auth: no test of is_loading.
use_require_auth_eager(st) ==
    IF ~is_authenticated(st) THEN Some("/login") ELSE None

\* The effect of use_require_auth: the route it pushes, if any.
use_require_auth(st) ==
    IF ~is_loading(st) /\ ~is_authenticated(st) THEN Some("/login") ELSE None

\* Mutant of use_redirect_if_authenticated: any loaded state redirects.
use_redirect_if_loaded(st) ==
    IF ~is_loading(st) THEN Some("/dashboard") ELSE None

\* The effect of use_redirect_if_authenticated.
use_redirect_if_authenticated(st) ==
    IF is_authenticated(st) THEN Some("/dashboard") ELSE None

\* Mutant of Home: no waiting for the state to load.
Home_no_wait(st) ==
    IF is_authenticated(st) THEN Some("/dashboard") ELSE Some("/login")

\* The effect of Home.
Home(st) ==
    CASE st.tag = "Authenticated" -> Some("/dashboard")
      [] st.tag = "Unauthenticated" -> Some("/login")
      [] OTHER -> None

\* Mutant of Dashboard: the placeholder only for an Unauthenticated session.
Dashboard_while_loading(st) ==
    IF st = Unauthenticated THEN "Redirecting to login..." ELSE "Dashboard"

\* What Dashboard renders: use_require_auth returns is_authenticated(), read
\* from the state signal at each render, and the component returns the
\* placeholder when it is false and the dashboard content otherwise.
Dashboard(st) ==
    IF ~is_authenticated(st) THEN "Redirecting to login..." ELSE "Dashboard"

\* The view of each route, by the hook or component that holds its effect.
ViewOf(r) ==
    CASE r = "/dashboard" -> "use_require_auth"
      [] r = "/login" -> "use_redirect_if_authenticated"
      [] OTHER -> "Home"

\* A view value v is [route, effectPending, formLoading, errorMessage,
\* loginTasks].  Mounting the view of route r: its effect is scheduled, and a
\* Login view starts with fresh signals and no task.
Mounted(r) ==
    [route |-> r, effectPending |-> TRUE, formLoading |-> FALSE,
     errorMessage |-> None, loginTasks |-> <<>>]

\* nav.push(to): another route unmounts the view (its signals and the tasks
\* it spawned are dropped) and mounts the view of `to`.
push(v, to) == IF to = v.route THEN v ELSE Mounted(to)

\* state.set(..): the effect of the mounted view, which reads the state, is
\* scheduled again.
notify(v) == [v EXCEPT !.effectPending = TRUE]

(***************************************************************************)
(* The login form.  A text typed into a field is a sequence of characters, *)
(* each an ASCII character or a code point written "U+hhhh";               *)
(* String::len() is the text's length in bytes of UTF-8.                   *)
(***************************************************************************)
\* Bytes of a character in UTF-8: one for the ASCII digits, two for U+00E9.
Utf8Len(c) == IF c = "U+00E9" THEN 2 ELSE 1

RECURSIVE str_len(_)
str_len(text) ==
    IF Len(text) = 0 THEN 0
    ELSE Utf8Len(text[1]) + str_len(SubSeq(text, 2, Len(text)))

is_empty(text) == Len(text) = 0

\* The test of onsubmit: TRUE when the submission goes on to the endpoint.
FieldsValid(user_val, password_val, totp_val) ==
    ~(\/ is_empty(user_val)
      \/ is_empty(password_val)
      \/ is_empty(totp_val)
      \/ str_len(totp_val) # 6)

\* What the user may have typed.
Users == {"", "u1"}
Passwords == {"", "p"}
Totps == {<<>>,
          <<"1", "2", "3", "4", "5">>,
          <<"1", "2", "3", "4", "5", "6">>,
          <<"U+00E9", "U+00E9", "U+00E9">>}

\* The request the form submits.
LoginApiRequest(clientcode, password, totp) ==
    [clientcode |-> clientcode, password |-> password, totp |-> totp]

\* Responses of the authentication endpoint: no response (the request
\* failed), a text that is not the response object, or the object.
ApiResponse(status, message, data) ==
    [kind |-> "json", status |-> status, message |-> message, data |-> data]

Responses ==
    {[kind |-> "transport"], [kind |-> "text"],
     ApiResponse(FALSE, "Invalid totp", None),
     ApiResponse(TRUE, "SUCCESS", None),
     ApiResponse(TRUE, "SUCCESS",
                 Some([jwt_token |-> "a", refresh_token |-> "b", feed_token |-> "c"])),
     ApiResponse(TRUE, "SUCCESS",
                 Some([jwt_token |-> "", refresh_token |-> "b", feed_token |-> "c"]))}

\* login_server: Ok(tokens) for a response with status and data, user_id
\* being the client code; every other response is an Err with its text.
login_server(clientcode, response) ==
    CASE response.kind = "transport" ->
             [ok |-> FALSE, error |-> "error sending request"]
      [] response.kind = "text" ->
             [ok |-> FALSE, error |-> "Failed to parse server response"]
      [] OTHER ->
             IF response.status
             THEN IF IsSome(response.data)
                  THEN [ok |-> TRUE,
                        tokens |-> AuthTokens(response.data[1].jwt_token,
                                              response.data[1].refresh_token,
                                              response.data[1].feed_token,
                                              clientcode)]
                  ELSE [ok |-> FALSE, error |-> "No token data received"]
             ELSE [ok |-> FALSE, error |-> response.message]

(***************************************************************************)
(* The state machine.                                                      *)
(***************************************************************************)
Store == [tokens |-> tokensRec, expiry |-> expiryRec]

\* Clock advances used so far (each advance is 1 or a whole window).
TicksUsed == (now \div ExpiryWindow(medium)) + (now % ExpiryWindow(medium))

\* What an operation leaves in lastOp; `at` is Some time of the successful
\* persist that the operation is (a login) or directly follows (a startup
\* load), and None otherwise.
Observe(op, res, tokens, at) ==
    [op |-> op, res |-> res, tokens |-> tokens, at |-> at]

\* A fresh install on either medium: AuthContext::new() gives Loading, and
\* AuthProvider's effect has spawned the startup task.
Init ==
    /\ medium \in {"web", "file"}
    /\ available \in BOOLEAN
    /\ state = Loading
    /\ tokensRec = None
    /\ expiryRec = None
    /\ now = 0
    /\ initPending = TRUE
    /\ logoutTasks = 0
    /\ lastOp = Observe("none", "ok", None, None)
    /\ route = NoRoute
    /\ effectPending = FALSE
    /\ formLoading = FALSE
    /\ errorMessage = None
    /\ loginTasks = <<>>

\* The wall clock advances.
Tick(d) ==
    /\ TicksUsed < MaxTicks
    /\ now' = now + d
    /\ UNCHANGED <<medium, available, state, tokensRec, expiryRec, initPending,
                   logoutTasks, lastOp>>

\* The login task calls auth.login(tokens) with the bundle the endpoint gave.
Login(tokens, fault) ==
    LET r == login(medium, available, state, Store, tokens, now, fault)
    IN  /\ state' = r.state
        /\ tokensRec' = r.store.tokens
        /\ expiryRec' = r.store.expiry
        /\ lastOp' = Observe("login", r.res, Some(tokens),
                              IF r.res = "ok" THEN Some(now) ELSE None)
        /\ UNCHANGED <<medium, available, now, initPending, logoutTasks>>

\* handle_logout: the Logout button is rendered when is_authenticated; a click
\* spawns the logout task.
LogoutClick ==
    /\ is_authenticated(state)
    /\ logoutTasks < MaxLogoutTasks
    /\ logoutTasks' = logoutTasks + 1
    /\ UNCHANGED <<medium, available, state, tokensRec, expiryRec, now,
                   initPending, lastOp>>

\* A spawned logout task runs auth_state.logout().
LogoutTask(fault) ==
    /\ logoutTasks > 0
    /\ LET r == logout(medium, available, state, Store, fault)
       IN  /\ state' = r.state
           /\ tokensRec' = r.store.tokens
           /\ expiryRec' = r.store.expiry
           /\ lastOp' = Observe("logout", r.res, None, None)
    /\ logoutTasks' = logoutTasks - 1
    /\ UNCHANGED <<medium, available, now, initPending>>

\* Mutant of Initialize: the state is set only when the load found a session.
Initialize_only_session(fault) ==
    /\ initPending
    /\ \E r \in {load_auth_from_storage(medium, available, Store, now, fault)} :
           /\ state' = IF is_authenticated(r.state) THEN r.state ELSE state
           /\ tokensRec' = r.store.tokens
           /\ expiryRec' = r.store.expiry
           /\ lastOp' = Observe("initialize", r.log, r.state.tokens,
                               IF lastOp.op = "login" THEN lastOp.at ELSE None)
    /\ initPending' = FALSE
    /\ UNCHANGED <<medium, available, now, logoutTasks>>

\* The startup task of AuthProvider: load the state from storage and set it.
\* r is what the one call of load_auth_from_storage returned.
Initialize(fault) ==
    /\ initPending
    /\ \E r \in {load_auth_from_storage(medium, available, Store, now, fault)} :
           /\ state' = r.state
           /\ tokensRec' = r.store.tokens
           /\ expiryRec' = r.store.expiry
           /\ lastOp' = Observe("initialize", r.log, r.state.tokens,
                               IF lastOp.op = "login" THEN lastOp.at ELSE None)
    /\ initPending' = FALSE
    /\ UNCHANGED <<medium, available, now, logoutTasks>>

\* The process is started again: a new AuthContext and a new startup task;
\* the tasks of the old process are gone, the records stay.
Restart ==
    /\ state' = Loading
    /\ initPending' = TRUE
    /\ logoutTasks' = 0
    /\ UNCHANGED <<medium, available, tokensRec, expiryRec, now, lastOp>>

\* A stored record is overwritten from outside the program with a text that
\* is neither a bundle object nor a number.
Tamper(key) ==
    /\ available
    /\ IF key = "tokens"
       THEN IsSome(tokensRec) /\ tokensRec' = Some(NotJson) /\ UNCHANGED expiryRec
       ELSE IsSome(expiryRec) /\ expiryRec' = Some(NotJson) /\ UNCHANGED tokensRec
    /\ lastOp' = Observe("tamper", "ok", None, None)
    /\ UNCHANGED <<medium, available, state, now, initPending, logoutTasks>>

Next ==
    \/ UNCHANGED ui /\ \E d \in {1, ExpiryWindow(medium)} : Tick(d)
    \/ UNCHANGED ui /\ \E tokens \in Bundles, fault \in PersistFaults(medium) :
                          Login(tokens, fault)
    \/ UNCHANGED ui /\ LogoutClick
    \/ UNCHANGED ui /\ \E fault \in RemoveFaults : LogoutTask(fault)
    \/ UNCHANGED ui /\ \E fault \in RemoveFaults : Initialize(fault)
    \/ UNCHANGED ui /\ Restart
    \/ UNCHANGED ui /\ \E key \in {"tokens", "expiry"} : Tamper(key)

Spec == Init /\ [][Next]_vars

\* Startup alone: what the store can hold when a process starts (the records
\* of an earlier login, aged or overwritten from outside) and the startup task.
StartupNext ==
    \/ UNCHANGED ui /\ \E d \in {1, ExpiryWindow(medium)} : Tick(d)
    \/ UNCHANGED ui /\ \E tokens \in {Bundle1, Bundle2}, fault \in PersistFaults(medium) :
                          Login(tokens, fault)
    \/ UNCHANGED ui /\ \E fault \in RemoveFaults : Initialize(fault)
    \/ UNCHANGED ui /\ Restart
    \/ UNCHANGED ui /\ \E key \in {"tokens", "expiry"} : Tamper(key)

\* AuthProvider spawns the startup task on the executor, which polls every
\* task that is ready; the task awaits nothing but the storage calls, which
\* return.  So the task is not left waiting forever.
Startup ==
    /\ Init
    /\ [][StartupNext]_vars
    /\ WF_vars(UNCHANGED ui /\ \E fault \in RemoveFaults : Initialize(fault))

(***************************************************************************)
(* The application.  Its steps are those of the session layer together     *)
(* with what the views do around them.                                     *)
(***************************************************************************)
View ==
    [route |-> route, effectPending |-> effectPending, formLoading |-> formLoading,
     errorMessage |-> errorMessage, loginTasks |-> loginTasks]

SetView(v) ==
    /\ route' = v.route
    /\ effectPending' = v.effectPending
    /\ formLoading' = v.formLoading
    /\ errorMessage' = v.errorMessage
    /\ loginTasks' = v.loginTasks

\* Mutant of is_token_expired: tokens whose expiry cannot be told count as
\* expired.
is_token_expired_unless_fresh(avail, s, t) ==
    ~(/\ avail
      /\ IsSome(s.expiry)
      /\ IsSome(parse_expiry(s.expiry[1]))
      /\ t <= parse_expiry(s.expiry[1])[1])

\* AuthContext::is_token_expired: the expiry record, when it can be read and
\* parsed, is compared with the clock; otherwise false.
is_token_expired(avail, s, t) ==
    /\ avail
    /\ IsSome(s.expiry)
    /\ IsSome(parse_expiry(s.expiry[1]))
    /\ t > parse_expiry(s.expiry[1])[1]

\* What the environment may do to a call of refresh_tokens_if_needed: fail
\* the read of the expiry record, or fail a removal of logout().
RefreshFaults == RemoveFaults \cup {"read_expiry"}

\* AuthContext::refresh_tokens_if_needed: with tokens in the state and the
\* expiry passed, `self.logout().await?`, then Err("Tokens expired").
refresh_tokens_if_needed(m, avail, st, s, t, fault) ==
    IF IsSome(get_tokens(st)) /\ is_token_expired(avail /\ fault # "read_expiry", s, t)
    THEN LET r == logout(m, avail, st, s, fault)
         IN  IF r.res # "ok" THEN r
             ELSE [state |-> r.state, store |-> r.store, res |-> "Tokens expired"]
    ELSE [state |-> st, store |-> s, res |-> "ok"]

\* The (String, String) pair of a header: its name and its value.
Header(name, value) == [name |-> name, value |-> value]

\* Mutant of get_auth_header: the refresh token in place of the jwt token.
get_auth_header_refresh(st) ==
    IF IsSome(get_tokens(st))
    THEN Some(Header("Authorization", "Bearer " \o get_tokens(st)[1].refresh_token))
    ELSE None

\* AuthContext::get_auth_header.
get_auth_header(st) ==
    IF IsSome(get_tokens(st))
    THEN Some(Header("Authorization", "Bearer " \o get_tokens(st)[1].jwt_token))
    ELSE None

\* The application is started at any of its routes: the session layer starts
\* as in Init and the view of the route is mounted.
AppInit ==
    /\ medium \in {"web", "file"}
    /\ available \in BOOLEAN
    /\ state = Loading
    /\ tokensRec = None
    /\ expiryRec = None
    /\ now = 0
    /\ initPending = TRUE
    /\ logoutTasks = 0
    /\ lastOp = Observe("none", "ok", None, None)
    /\ route \in Routes
    /\ effectPending = TRUE
    /\ formLoading = FALSE
    /\ errorMessage = None
    /\ loginTasks = <<>>

AppTick(d) == Tick(d) /\ UNCHANGED ui

\* The application is started again at route r.
Start(r) ==
    /\ Restart
    /\ SetView(Mounted(r))

\* The startup task, and the state.set that ends it.
AppInitialize(fault) ==
    /\ Initialize(fault)
    /\ SetView(notify(View))

\* What an effect leaves in lastOp: the route it pushed, if any.
Pushed(to) == IF IsSome(to) THEN Some([route |-> to[1]]) ELSE None

\* The scheduler runs the effect of the mounted view; lastOp keeps the view
\* whose effect ran and the route it pushed, if any.
RunEffect ==
    /\ effectPending
    /\ LET to == CASE route = "/dashboard" -> use_require_auth(state)
                   [] route = "/login" -> use_redirect_if_authenticated(state)
                   [] OTHER -> Home(state)
       IN  /\ IF IsSome(to)
              THEN SetView(push(View, to[1]))
              ELSE SetView([View EXCEPT !.effectPending = FALSE])
           /\ lastOp' = Observe(ViewOf(route), "ok", Pushed(to), None)
    /\ UNCHANGED <<medium, available, state, tokensRec, expiryRec, now,
                   initPending, logoutTasks>>

\* Mutant of onsubmit: the loading flag is not set.
onsubmit_no_flag(user_val, password_val, totp_val) ==
    /\ route = "/login"
    /\ ~formLoading
    /\ Len(loginTasks) < MaxLoginTasks
    /\ IF ~FieldsValid(user_val, password_val, totp_val)
       THEN /\ errorMessage' = Some("Invalid credentials")
            /\ lastOp' = Observe("onsubmit", "Invalid credentials",
                                  Some(LoginApiRequest(user_val, password_val, totp_val)), None)
            /\ UNCHANGED <<formLoading, loginTasks>>
       ELSE /\ errorMessage' = None
            /\ loginTasks' = Append(loginTasks, user_val)
            /\ lastOp' = Observe("onsubmit", "ok",
                                  Some(LoginApiRequest(user_val, password_val, totp_val)), None)
            /\ UNCHANGED formLoading
    /\ UNCHANGED <<medium, available, state, tokensRec, expiryRec, now,
                   initPending, logoutTasks, route, effectPending>>

\* Login::onsubmit.  The submit button is rendered disabled while is_loading,
\* so the form is submitted only while the flag is off.  Invalid fields set
\* the error message and return; valid ones set the flag, clear the message
\* and spawn the login task with the values of the fields.
onsubmit(user_val, password_val, totp_val) ==
    /\ route = "/login"
    /\ ~formLoading
    /\ Len(loginTasks) < MaxLoginTasks
    /\ IF ~FieldsValid(user_val, password_val, totp_val)
       THEN /\ errorMessage' = Some("Invalid credentials")
            /\ lastOp' = Observe("onsubmit", "Invalid credentials",
                                  Some(LoginApiRequest(user_val, password_val, totp_val)), None)
            /\ UNCHANGED <<formLoading, loginTasks>>
       ELSE /\ formLoading' = TRUE
            /\ errorMessage' = None
            /\ loginTasks' = Append(loginTasks, user_val)
            /\ lastOp' = Observe("onsubmit", "ok",
                                  Some(LoginApiRequest(user_val, password_val, totp_val)), None)
    /\ UNCHANGED <<medium, available, state, tokensRec, expiryRec, now,
                   initPending, logoutTasks, route, effectPending>>

\* The form's tasks without task i.
WithoutTask(i) ==
    SubSeq(loginTasks, 1, i - 1) \o SubSeq(loginTasks, i + 1, Len(loginTasks))

\* Mutant of LoginTaskDone: the dashboard is pushed whatever auth.login
\* returned.
LoginTaskDone_push_always(i, response, fault) ==
    /\ i \in 1..Len(loginTasks)
    /\ LET r == login_server(loginTasks[i], response)
       IN  IF r.ok
           THEN /\ Login(r.tokens, fault)
                /\ SetView(push(notify(View), "/dashboard"))
           ELSE /\ lastOp' = Observe("login_server", r.error, None, None)
                /\ SetView([View EXCEPT !.errorMessage = Some("Login failed"),
                                        !.formLoading = FALSE,
                                        !.loginTasks = WithoutTask(i)])
                /\ UNCHANGED <<medium, available, state, tokensRec, expiryRec, now,
                               initPending, logoutTasks>>

\* Mutant of LoginTaskDone: the flag is cleared only after a failed endpoint
\* call.
LoginTaskDone_flag_kept(i, response, fault) ==
    /\ i \in 1..Len(loginTasks)
    /\ LET r == login_server(loginTasks[i], response)
       IN  IF r.ok
           THEN /\ Login(r.tokens, fault)
                /\ IF lastOp'.res = "ok"
                   THEN SetView(push(notify(View), "/dashboard"))
                   ELSE SetView([View EXCEPT
                                   !.errorMessage = Some("Failed to save session")])
           ELSE /\ lastOp' = Observe("login_server", r.error, None, None)
                /\ SetView([View EXCEPT !.errorMessage = Some("Login failed"),
                                        !.formLoading = FALSE,
                                        !.loginTasks = WithoutTask(i)])
                /\ UNCHANGED <<medium, available, state, tokensRec, expiryRec, now,
                               initPending, logoutTasks>>

\* Mutant of LoginTaskDone: the error of login_server is shown as it is.
LoginTaskDone_raw(i, response, fault) ==
    /\ i \in 1..Len(loginTasks)
    /\ LET r == login_server(loginTasks[i], response)
       IN  IF r.ok
           THEN /\ Login(r.tokens, fault)
                /\ IF lastOp'.res = "ok"
                   THEN SetView(push(notify(View), "/dashboard"))
                   ELSE SetView([View EXCEPT
                                   !.errorMessage = Some("Failed to save session"),
                                   !.formLoading = FALSE,
                                   !.loginTasks = WithoutTask(i)])
           ELSE /\ lastOp' = Observe("login_server", r.error, None, None)
                /\ SetView([View EXCEPT !.errorMessage = Some(r.error),
                                        !.formLoading = FALSE,
                                        !.loginTasks = WithoutTask(i)])
                /\ UNCHANGED <<medium, available, state, tokensRec, expiryRec, now,
                               initPending, logoutTasks>>

\* The login task of the form, from the answer of login_server to its end:
\* Ok(tokens) goes to auth.login, whose Ok pushes the dashboard and whose Err
\* shows "Failed to save session"; Err shows "Login failed".  Then the
\* loading flag is cleared.
LoginTaskDone(i, response, fault) ==
    /\ i \in 1..Len(loginTasks)
    /\ LET r == login_server(loginTasks[i], response)
       IN  IF r.ok
           THEN /\ Login(r.tokens, fault)
                /\ IF lastOp'.res = "ok"
                   THEN SetView(push(notify(View), "/dashboard"))
                   ELSE SetView([View EXCEPT
                                   !.errorMessage = Some("Failed to save session"),
                                   !.formLoading = FALSE,
                                   !.loginTasks = WithoutTask(i)])
           ELSE /\ lastOp' = Observe("login_server", r.error, None, None)
                /\ SetView([View EXCEPT !.errorMessage = Some("Login failed"),
                                        !.formLoading = FALSE,
                                        !.loginTasks = WithoutTask(i)])
                /\ UNCHANGED <<medium, available, state, tokensRec, expiryRec, now,
                               initPending, logoutTasks>>

\* The close button of the error display.
CloseError ==
    /\ route = "/login"
    /\ IsSome(errorMessage)
    /\ errorMessage' = None
    /\ UNCHANGED <<medium, available, state, tokensRec, expiryRec, now,
                   initPending, logoutTasks, lastOp, route, effectPending,
                   formLoading, loginTasks>>

\* AppHeader::handle_logout: the header, with its Logout button, belongs to
\* the layout of the dashboard and login routes.
handle_logout ==
    /\ route \in {"/dashboard", "/login"}
    /\ LogoutClick
    /\ UNCHANGED ui

\* Mutant of LogoutTaskDone: the login route is pushed whatever logout()
\* returned.
LogoutTaskDone_push_always(fault) ==
    /\ LogoutTask(fault)
    /\ SetView(push(notify(View), "/login"))

\* The task of handle_logout: Ok of logout() pushes the login route.
LogoutTaskDone(fault) ==
    /\ LogoutTask(fault)
    /\ IF lastOp'.res = "ok"
       THEN SetView(push(notify(View), "/login"))
       ELSE UNCHANGED ui

\* Some component calls auth.refresh_tokens_if_needed().
RefreshTokensIfNeeded(fault) ==
    /\ LET r == refresh_tokens_if_needed(medium, available, state, Store, now, fault)
       IN  /\ state' = r.state
           /\ tokensRec' = r.store.tokens
           /\ expiryRec' = r.store.expiry
           /\ lastOp' = Observe("refresh_tokens_if_needed", r.res, None, None)
           /\ IF r.res = "Tokens expired"
              THEN SetView(notify(View))
              ELSE UNCHANGED <<route, effectPending, formLoading, errorMessage,
                               loginTasks>>
    /\ UNCHANGED <<medium, available, now, initPending, logoutTasks>>

\* Some component calls auth.get_auth_header().
GetAuthHeader ==
    /\ lastOp' = Observe("get_auth_header", "ok", get_auth_header(state), None)
    /\ UNCHANGED <<medium, available, state, tokensRec, expiryRec, now,
                   initPending, logoutTasks>>
    /\ UNCHANGED ui

AppNext ==
    \/ \E d \in {1, ExpiryWindow(medium)} : AppTick(d)
    \/ \E r \in Routes : Start(r)
    \/ \E fault \in RemoveFaults : AppInitialize(fault)
    \/ RunEffect
    \/ \E user_val \in Users, password_val \in Passwords, totp_val \in Totps :
          onsubmit(user_val, password_val, totp_val)
    \/ \E i \in 1..MaxLoginTasks, response \in Responses,
          fault \in PersistFaults(medium) : LoginTaskDone(i, response, fault)
    \/ CloseError
    \/ handle_logout
    \/ \E fault \in RemoveFaults : LogoutTaskDone(fault)
    \/ \E fault \in RefreshFaults : RefreshTokensIfNeeded(fault)
    \/ GetAuthHeader

App == AppInit /\ [][AppNext]_vars

\* The login flow alone: the application started at any route, the startup
\* task, the effects of the views, the form and its task.
LoginFlowNext ==
    \/ \E r \in Routes : Start(r)
    \/ \E fault \in RemoveFaults : AppInitialize(fault)
    \/ RunEffect
    \/ \E user_val \in Users, password_val \in Passwords, totp_val \in Totps :
          onsubmit(user_val, password_val, totp_val)
    \/ \E i \in 1..MaxLoginTasks, response \in Responses,
          fault \in PersistFaults(medium) : LoginTaskDone(i, response, fault)
    \/ CloseError

\* The login task is spawned on the executor, which polls every task that is
\* ready, and the call of the endpoint returns (with tokens or an error): a
\* login task in flight is not left waiting forever.
LoginFlow ==
    /\ AppInit
    /\ [][LoginFlowNext]_vars
    /\ WF_vars(\E i \in 1..MaxLoginTasks, response \in Responses,
                  fault \in PersistFaults(medium) : LoginTaskDone(i, response, fault))

\* The redirects alone: the application started at any route, the startup
\* task, the effects of the views, and the login and logout that change the
\* session state under them.
RedirectsNext ==
    \/ \E r \in Routes : Start(r)
    \/ \E fault \in RemoveFaults : AppInitialize(fault)
    \/ RunEffect
    \/ \E user_val \in Users, password_val \in Passwords, totp_val \in Totps :
          onsubmit(user_val, password_val, totp_val)
    \/ \E i \in 1..MaxLoginTasks, response \in Responses,
          fault \in PersistFaults(medium) : LoginTaskDone(i, response, fault)
    \/ handle_logout
    \/ \E fault \in RemoveFaults : LogoutTaskDone(fault)

\* A use_effect that is scheduled is run by the scheduler: it does not stay
\* pending forever.
Redirects ==
    /\ AppInit
    /\ [][RedirectsNext]_vars
    /\ WF_vars(RunEffect)

(***************************************************************************)
(* Steps of the operations, for the properties below.  Each is recognised  *)
(* by what only that operation does: Login alone leaves "login" in lastOp  *)
(* with the clock and the task counts as they were (a Restart that changes *)
(* anything moves the state to Loading); LogoutTask alone takes one task   *)
(* off with the startup task as it was; Initialize alone ends the startup  *)
(* task.                                                                   *)
(***************************************************************************)
StateKept == state' = state \/ ~is_loading(state')

LoginStep ==
    /\ lastOp'.op = "login"
    /\ UNCHANGED <<now, initPending, logoutTasks>>
    /\ StateKept

LogoutStep ==
    /\ lastOp'.op = "logout"
    /\ logoutTasks' = logoutTasks - 1
    /\ UNCHANGED <<now, initPending>>
    /\ StateKept

InitializeStep == initPending /\ ~initPending'

\* The recognisers are exactly the steps of the three operations.
StepsRecognised ==
    [][/\ LoginStep <=>
            \E tokens \in Bundles, fault \in PersistFaults(medium) : Login(tokens, fault)
       /\ LogoutStep <=> \E fault \in RemoveFaults : LogoutTask(fault)
       /\ InitializeStep <=> \E fault \in RemoveFaults : Initialize(fault)]_vars

\* The store s holds both records as persist(tokens) at time t writes them.
Persisted(s, tokens, t) ==
    /\ s.tokens = Some(to_json(tokens))
    /\ s.expiry = Some(to_string(t + ExpiryWindow(medium)))

BothAbsent == tokensRec = None /\ expiryRec = None

(***************************************************************************)
(* Properties.                                                             *)
(***************************************************************************)

\* C1: login(bundle) with an empty field is rejected with an error before any
\* storage write: neither record is written and the session state is
\* unchanged.
C1_LoginRejectsEmptyField ==
    [][(LoginStep /\ ~AllFieldsNonEmpty(lastOp'.tokens[1])) =>
          /\ lastOp'.res # "ok"
          /\ UNCHANGED <<state, tokensRec, expiryRec>>]_vars

\* C2: after logout() has returned, is_authenticated() is false, whether or
\* not the store clear fully succeeded.
C2_LogoutLeavesUnauthenticated ==
    lastOp.op = "logout" => ~is_authenticated(state)

\* C3: a login whose persist fails returns the error and leaves the session
\* state exactly as it was; the state becomes Authenticated(bundle) only when
\* persist succeeded, that is with both records written.
C3_LoginFailureLeavesState ==
    [][LoginStep =>
          /\ lastOp'.res # "ok" => state' = state
          /\ lastOp'.res = "ok" =>
                /\ state' = Authenticated(lastOp'.tokens[1])
                /\ Persisted(Store', lastOp'.tokens[1], now)]_vars

\* A login of one bundle has failed while the session holds another bundle.
C3_Witness ==
    /\ lastOp.op = "login"
    /\ lastOp.res # "ok"
    /\ is_authenticated(state)
    /\ state.tokens # lastOp.tokens

\* C4: for a bundle with no empty field, a successful persist followed by a
\* load before the 24-hour window has elapsed gives back exactly that bundle.
C4_RoundTrip ==
    [][(/\ InitializeStep
        /\ lastOp.op = "login"
        /\ lastOp.res = "ok"
        /\ AllFieldsNonEmpty(lastOp.tokens[1])
        /\ now <= lastOp.at[1] + ExpiryWindow(medium)) =>
          /\ state' = Authenticated(lastOp.tokens[1])
          /\ lastOp'.tokens = lastOp.tokens]_vars

\* The startup load that followed a successful persist of Bundle1 at time 0
\* has given the bundle back at the last instant of the window.
C4_Witness ==
    /\ lastOp.op = "initialize"
    /\ lastOp.at = Some(0)
    /\ lastOp.tokens = Some(Bundle1)
    /\ state = Authenticated(Bundle1)
    /\ now = ExpiryWindow(medium)

ExpiredLogs == {"Tokens expired", "Tokens expired, clearing storage"}

\* C5: a load after the window of the last persist has elapsed returns no
\* bundle and deletes both records; a load that follows it returns no bundle
\* either and finds both records absent.
C5_ExpiredLoadIsDestructive ==
    [][InitializeStep =>
          /\ (/\ lastOp.op = "login"
              /\ lastOp.res = "ok"
              /\ now > lastOp.at[1] + ExpiryWindow(medium)) =>
                (~is_authenticated(state') /\ BothAbsent')
          /\ (lastOp.op = "initialize" /\ lastOp.res \in ExpiredLogs) =>
                (~is_authenticated(state') /\ BothAbsent')]_vars

\* C6: when the bundle record cannot be deserialized, the load returns no
\* bundle and both records are deleted, on both media.
C6_CorruptBundleIsCleared ==
    [][(/\ InitializeStep
        /\ available
        /\ IsSome(tokensRec)
        /\ ~IsSome(from_json(tokensRec[1]))) =>
          (state' = Unauthenticated /\ BothAbsent')]_vars

\* C7: in every state of the store, the expiry record exists if and only if
\* the bundle record exists.
C7_RecordsTogether == IsSome(tokensRec) <=> IsSome(expiryRec)

ExpiryWriteErrors == {"Failed to write expiry file", "Failed to store token expiry"}

\* C9: after a persist(b) that failed with only the bundle record written, a
\* load never yields b.
C9_FailedPersistInvisible ==
    [][(/\ InitializeStep
        /\ lastOp.op = "login"
        /\ lastOp.res \in ExpiryWriteErrors) =>
          state' # Authenticated(lastOp.tokens[1])]_vars

\* C10: clear() succeeds and leaves both records absent whenever no removal of
\* a present record fails, whichever records are already absent; with both
\* absent it succeeds; called right after a successful clear() it returns no
\* error and leaves both records absent.
C10_ClearIdempotent ==
    [][LogoutStep =>
          /\ available =>
                LET r == clear_auth_tokens(medium, available, Store, "none")
                IN  r.res = "ok" /\ r.store = [tokens |-> None, expiry |-> None]
          /\ (available /\ BothAbsent) => (lastOp'.res = "ok" /\ BothAbsent')
          /\ (lastOp.op = "logout" /\ lastOp.res = "ok") =>
                (lastOp'.res = "ok" /\ BothAbsent')]_vars

\* A clear() has succeeded and the next logout task, which calls clear()
\* again, is about to run on the emptied store.
C10_Witness ==
    /\ lastOp.op = "logout"
    /\ lastOp.res = "ok"
    /\ BothAbsent
    /\ logoutTasks > 0

\* C12: after a successful login(b), a restart (a fresh session state Loading,
\* then the startup initialization) less than 24 hours after the login gives
\* Authenticated(b), the bundle identical to the one logged in.
C12_RestartKeepsSession ==
    [][(/\ InitializeStep
        /\ is_loading(state)
        /\ lastOp.op = "login"
        /\ lastOp.res = "ok"
        /\ now < lastOp.at[1] + ExpiryWindow(medium)) =>
          state' = Authenticated(lastOp.tokens[1])]_vars

\* The process has been started again some time, less than 24 hours, after a
\* successful login of Bundle1: the session is Loading and the startup task
\* is about to load the store.
C12_Witness ==
    /\ lastOp.op = "login"
    /\ lastOp.res = "ok"
    /\ lastOp.tokens = Some(Bundle1)
    /\ is_loading(state)
    /\ initPending
    /\ now > lastOp.at[1]
    /\ now < lastOp.at[1] + ExpiryWindow(medium)

\* C13: whenever the session is Authenticated(bundle), all four fields of the
\* bundle are non-empty, whether the bundle came from login or from storage.
C13_AuthenticatedBundleValid ==
    is_authenticated(state) => AllFieldsNonEmpty(state.tokens[1])

\* A step in which the scheduler runs the effect of the mounted view.
EffectStep == lastOp'.op = ViewOf(route) /\ RunEffect

\* C11: the session state starts as Loading; the startup initialization
\* leaves it Authenticated(bundle) with the bundle the store holds when the
\* store holds a readable, unexpired one, and only with the bundle the store
\* holds, and Unauthenticated when the storage is unavailable or empty; given
\* that the startup task is scheduled, the state does not stay Loading.
C11_InitializationSettles ==
    /\ is_loading(state)
    /\ [][InitializeStep =>
             /\ ~is_loading(state')
             /\ is_authenticated(state') =>
                   /\ available
                   /\ IsSome(tokensRec)
                   /\ from_json(tokensRec[1]) = state'.tokens
             /\ (~available \/ ~IsSome(tokensRec)) => state' = Unauthenticated
             /\ (/\ available
                  /\ IsSome(tokensRec)
                  /\ IsSome(from_json(tokensRec[1]))
                  /\ IsSome(expiryRec)
                  /\ IsSome(parse_expiry(expiryRec[1]))
                  /\ now <= parse_expiry(expiryRec[1])[1]) =>
                   state' = Authenticated(from_json(tokensRec[1])[1])]_vars
    /\ is_loading(state) ~> ~is_loading(state)

\* The startup load has found storage unavailable and has left the session
\* Unauthenticated.
C11_Witness ==
    /\ ~available
    /\ lastOp.op = "initialize"
    /\ ~initPending
    /\ state = Unauthenticated

\* C14: with the protected view mounted, a session state that is neither
\* Loading nor Authenticated has the guard's effect scheduled, and the effect,
\* when it runs, pushes the login route in exactly that case: in Loading and
\* in Authenticated it leaves the route alone.
C14_ProtectedGuard ==
    [][/\ (/\ route' = "/dashboard"
            /\ ~is_loading(state')
            /\ ~is_authenticated(state')) => effectPending'
       /\ (EffectStep /\ route = "/dashboard") =>
             IF ~is_loading(state) /\ ~is_authenticated(state)
             THEN route' = "/login"
             ELSE route' = route]_vars

\* The guard of the dashboard has pushed the login route for an
\* Unauthenticated session.
C14_Witness ==
    /\ lastOp.op = "use_require_auth"
    /\ lastOp.tokens = Pushed(Some("/login"))
    /\ route = "/login"
    /\ state = Unauthenticated

\* C15: with the login view mounted, an Authenticated session state has the
\* guard's effect scheduled, and the effect, when it runs, pushes the
\* dashboard route in exactly that case: in Loading and in Unauthenticated it
\* leaves the route alone.
C15_LoginGuard ==
    [][/\ (route' = "/login" /\ is_authenticated(state')) => effectPending'
       /\ (EffectStep /\ route = "/login") =>
             IF is_authenticated(state)
             THEN route' = "/dashboard"
             ELSE route' = route]_vars

\* The guard of the login view has pushed the dashboard route for an
\* Authenticated session.
C15_Witness ==
    /\ lastOp.op = "use_redirect_if_authenticated"
    /\ lastOp.tokens = Pushed(Some("/dashboard"))
    /\ route = "/dashboard"
    /\ is_authenticated(state)

\* C16: at most one login task of the mounted form is in flight.
C16_OneLoginTask == Len(loginTasks) <= 1

\* A login task is in flight and the form is still mounted with its flag set.
C16_Witness ==
    /\ Len(loginTasks) = 1
    /\ formLoading
    /\ route = "/login"
    /\ lastOp.op = "onsubmit"

\* C17: a submission with an empty client code, password or TOTP, or with a
\* TOTP that is not exactly 6 characters long, sets an error message, spawns
\* no task for the endpoint, writes nothing and leaves the session state and
\* the loading flag as they were.
C17_InvalidSubmissionRejected ==
    [][\A user_val \in Users, password_val \in Passwords, totp_val \in Totps :
          (/\ lastOp'.op = "onsubmit"
           /\ onsubmit(user_val, password_val, totp_val)
           /\ \/ Len(user_val) = 0
              \/ Len(password_val) = 0
              \/ Len(totp_val) = 0
              \/ Len(totp_val) # 6) =>
            /\ IsSome(errorMessage')
            /\ UNCHANGED <<loginTasks, formLoading, state, tokensRec, expiryRec>>]_vars

\* The expiry record of the store can be read and its time has passed.
MarkerInThePast ==
    /\ available
    /\ IsSome(expiryRec)
    /\ IsSome(parse_expiry(expiryRec[1]))
    /\ now > parse_expiry(expiryRec[1])[1]

\* The expiry record of the store can be read and its time has not passed.
MarkerNotPassed ==
    /\ available
    /\ IsSome(expiryRec)
    /\ IsSome(parse_expiry(expiryRec[1]))
    /\ now <= parse_expiry(expiryRec[1])[1]

\* C18: refresh_tokens_if_needed(), called while Authenticated with the
\* expiry marker in the past, clears both records, makes the state
\* Unauthenticated and returns the expiry error; with the marker not passed
\* it returns Ok and leaves state and storage as they were.
C18_RefreshLogsOutWhenExpired ==
    [][\A fault \in RemoveFaults :
          (/\ lastOp'.op = "refresh_tokens_if_needed"
           /\ RefreshTokensIfNeeded(fault)
           /\ is_authenticated(state)) =>
            /\ MarkerInThePast =>
                  /\ state' = Unauthenticated
                  /\ BothAbsent'
                  /\ lastOp'.res = "Tokens expired"
            /\ MarkerNotPassed =>
                  /\ lastOp'.res = "ok"
                  /\ UNCHANGED <<state, tokensRec, expiryRec>>]_vars

\* C19: when the endpoint call fails (no response, a response that cannot be
\* parsed, status false, or no data), the login task shows "Login failed",
\* writes nothing, leaves the session state as it was and pushes no route.
C19_EndpointFailureIsGeneric ==
    [][\A i \in DOMAIN loginTasks, response \in Responses,
          fault \in PersistFaults(medium) :
          (/\ lastOp'.op = "login_server"
           /\ \/ response.kind # "json"
              \/ ~response.status
              \/ ~IsSome(response.data)
           /\ LoginTaskDone(i, response, fault)) =>
            /\ errorMessage' = Some("Login failed")
            /\ UNCHANGED <<state, tokensRec, expiryRec, route>>]_vars

\* The endpoint has rejected the credentials with its own message and the
\* form shows the generic one.
C19_Witness ==
    /\ lastOp.op = "login_server"
    /\ lastOp.res = "Invalid totp"
    /\ errorMessage = Some("Login failed")
    /\ route = "/login"
    /\ ~formLoading

\* C20: get_auth_header() gives "Bearer " followed by the jwt_token of the
\* current bundle exactly when the state is Authenticated and nothing in
\* Loading and Unauthenticated; it changes neither the state nor the store.
C20_AuthorizationHeader ==
    [][(lastOp'.op = "get_auth_header" /\ GetAuthHeader) =>
          /\ lastOp'.tokens =
                IF state.tag = "Authenticated"
                THEN Some(Header("Authorization", "Bearer " \o state.tokens[1].jwt_token))
                ELSE None
          /\ UNCHANGED <<state, tokensRec, expiryRec>>]_vars

\* The header has been read from a session Authenticated with Bundle1.
C20_Witness ==
    /\ lastOp.op = "get_auth_header"
    /\ lastOp.tokens = Some(Header("Authorization", "Bearer a"))
    /\ state = Authenticated(Bundle1)

\* C21: with the dashboard view mounted, the dashboard content is rendered
\* only for an Authenticated session; for a Loading and for an
\* Unauthenticated one the view renders the redirecting placeholder.
C21_ProtectedContentOnlyAuthenticated ==
    route = "/dashboard" =>
        /\ Dashboard(state) = "Dashboard" => is_authenticated(state)
        /\ (is_loading(state) \/ state = Unauthenticated) =>
              Dashboard(state) = "Redirecting to login..."

\* The dashboard view is mounted over a session that is still Loading and
\* shows the placeholder; its guard has run and has not navigated.
C21_Witness ==
    /\ route = "/dashboard"
    /\ is_loading(state)
    /\ lastOp.op = "use_require_auth"
    /\ ~effectPending
    /\ Dashboard(state) = "Redirecting to login..."

\* C22: while the session state is Loading no component navigates: an
\* effect that runs in Loading pushes nothing, and every change of route made
\* by a component (not by starting the application) is made with the state
\* loaded.  At the root route a loaded state has the dispatcher's effect
\* scheduled, and the effect pushes the dashboard for Authenticated and the
\* login view for Unauthenticated.
C22_NoNavigationWhileLoading ==
    [][/\ (EffectStep /\ is_loading(state)) =>
             /\ lastOp'.tokens = None
             /\ route' = route
       /\ (route' # route) =>
             \/ \E r \in Routes : Start(r)
             \/ ~is_loading(state')
       /\ (route' = "/" /\ ~is_loading(state')) => effectPending'
       /\ (EffectStep /\ route = "/" /\ is_authenticated(state)) =>
             route' = "/dashboard"
       /\ (EffectStep /\ route = "/" /\ state = Unauthenticated) =>
             route' = "/login"]_vars

\* The root dispatcher has run over a session that is still Loading and has
\* pushed nothing.
C22_Witness ==
    /\ route = "/"
    /\ is_loading(state)
    /\ lastOp.op = "Home"
    /\ lastOp.tokens = None
    /\ ~effectPending

\* C23: a successful persist writes the marker as its own time plus the
\* 24 hours of the medium; a startup load that follows a persist at any time
\* from the persist time to the marker, both included, gives the bundle and
\* leaves both records as they are; and a load reports expiry only when the
\* clock is strictly past the marker.
C23_ExpiryBoundary ==
    [][/\ (LoginStep /\ lastOp'.res = "ok") =>
             expiryRec' = Some(to_string(now + ExpiryWindow(medium)))
       /\ (/\ InitializeStep
            /\ lastOp.op = "login"
            /\ lastOp.res = "ok"
            /\ lastOp.at[1] <= now
            /\ now <= lastOp.at[1] + ExpiryWindow(medium)) =>
             /\ state' = Authenticated(lastOp.tokens[1])
             /\ UNCHANGED <<tokensRec, expiryRec>>
       /\ (InitializeStep /\ lastOp'.res \in ExpiredLogs) =>
             /\ IsSome(expiryRec)
             /\ IsSome(parse_expiry(expiryRec[1]))
             /\ now > parse_expiry(expiryRec[1])[1]]_vars

\* A startup load at the very instant of the marker, 24 hours after the
\* persist, has given the bundle and has left both records.
C23_Witness ==
    /\ lastOp.op = "initialize"
    /\ IsSome(lastOp.at)
    /\ now = lastOp.at[1] + ExpiryWindow(medium)
    /\ state = Authenticated(Bundle1)
    /\ IsSome(tokensRec)
    /\ expiryRec = Some(to_string(now))

\* C24: when the endpoint has returned tokens, the login task pushes the
\* dashboard only with the tokens persisted and the session Authenticated
\* with them; when the persist failed it pushes nothing, shows "Failed to
\* save session" and leaves the session state as it was.
C24_LoginFlowOrder ==
    [][(/\ lastOp'.op = "login"
        /\ \E i \in DOMAIN loginTasks, response \in Responses,
              fault \in PersistFaults(medium) :
              LoginTaskDone(i, response, fault)) =>
          IF lastOp'.res = "ok"
          THEN /\ Persisted(Store', lastOp'.tokens[1], now)
               /\ state' = Authenticated(lastOp'.tokens[1])
               /\ route' = "/dashboard"
          ELSE /\ route' = "/login"
               /\ errorMessage' = Some("Failed to save session")
               /\ state' = state]_vars

\* The login task has persisted the tokens of the endpoint, the session is
\* Authenticated with them and the dashboard is mounted.
C24_Witness ==
    /\ lastOp.op = "login"
    /\ lastOp.res = "ok"
    /\ state = Authenticated(Bundle1)
    /\ Persisted(Store, Bundle1, now)
    /\ route = "/dashboard"

\* C25: a login attempt that has passed validation has set the form's
\* loading flag; every end of its task (the endpoint failed, the persist
\* failed, or success) leaves the flag off, and, the endpoint's call
\* returning, a flag that is on is eventually off.
C25_LoadingFlagReset ==
    /\ [][(/\ lastOp'.op \in {"login", "login_server"}
            /\ \E i \in DOMAIN loginTasks, response \in Responses,
                  fault \in PersistFaults(medium) :
                  LoginTaskDone(i, response, fault)) =>
              /\ formLoading
              /\ ~formLoading'
              /\ loginTasks' = <<>>]_vars
    /\ formLoading ~> ~formLoading

\* A login task has ended on a failed persist: the form is still mounted,
\* shows the failure and its flag is off.
C25_Witness ==
    /\ route = "/login"
    /\ lastOp.op = "login"
    /\ lastOp.res # "ok"
    /\ errorMessage = Some("Failed to save session")
    /\ ~formLoading
    /\ loginTasks = <<>>

\* C26: within one run of the application a session state that has left
\* Loading does not come back to it: every step but the start of a new
\* process (a new AuthContext) keeps a loaded state loaded, and a step that
\* changes the state sets it to Authenticated or Unauthenticated.
C26_LoadingNotReentered ==
    [][\/ \E r \in Routes : Start(r)
       \/ /\ ~is_loading(state) => ~is_loading(state')
          /\ state' # state => state'.tag \in {"Authenticated", "Unauthenticated"}]_vars

\* The startup task and, later, a logout have run in one process, and the
\* session state, set last by the logout, is Unauthenticated.
C26_Witness ==
    /\ ~initPending
    /\ lastOp.op = "logout"
    /\ lastOp.res = "ok"
    /\ state = Unauthenticated
    /\ now > 0

\* C27: a logout() that returns Ok leaves both records absent and the state
\* Unauthenticated, and its task pushes the login route; one that returns an
\* error pushes nothing.  A startup load that finds both records absent, as
\* the logout left them, gives Unauthenticated and writes nothing.
C27_LogoutThenRestart ==
    [][/\ (/\ lastOp'.op = "logout"
            /\ \E fault \in RemoveFaults : LogoutTaskDone(fault)) =>
             IF lastOp'.res = "ok"
             THEN /\ BothAbsent'
                  /\ state' = Unauthenticated
                  /\ route' = "/login"
             ELSE UNCHANGED ui
       /\ (InitializeStep /\ BothAbsent) =>
             /\ state' = Unauthenticated
             /\ BothAbsent']_vars

\* The application has been started again right after a logout that returned
\* Ok: the records are absent and the startup task is about to load them.
C27_Witness ==
    /\ lastOp.op = "logout"
    /\ lastOp.res = "ok"
    /\ BothAbsent
    /\ is_loading(state)
    /\ initPending
    /\ now > 0

\* C28: refresh_tokens_if_needed() returns Ok and changes nothing, neither
\* the state nor the records nor the view, when the state is Loading or
\* Unauthenticated, and when it is Authenticated and the expiry record is
\* missing, cannot be read or cannot be parsed.
C28_RefreshNoOp ==
    [][(/\ lastOp'.op = "refresh_tokens_if_needed"
        /\ \/ /\ \/ ~is_authenticated(state)
                 \/ ~IsSome(expiryRec)
                 \/ ~IsSome(parse_expiry(expiryRec[1]))
              /\ \E fault \in RefreshFaults : RefreshTokensIfNeeded(fault)
           \/ RefreshTokensIfNeeded("read_expiry")) =>
          /\ lastOp'.res = "ok"
          /\ UNCHANGED <<state, tokensRec, expiryRec>>
          /\ UNCHANGED ui]_vars

\* refresh_tokens_if_needed() has returned Ok for an Authenticated session
\* whose tokens record is stored without an expiry record.
C28_Witness ==
    /\ lastOp.op = "refresh_tokens_if_needed"
    /\ lastOp.res = "ok"
    /\ is_authenticated(state)
    /\ IsSome(tokensRec)
    /\ expiryRec = None

\* The route where a loaded session state comes to rest.
RestingRoute(st) == IF is_authenticated(st) THEN "/dashboard" ELSE "/login"

\* C29: with the session state loaded, an effect that runs away from the
\* resting route of the state (the dashboard for Authenticated, the login
\* view for Unauthenticated) pushes that route, and an effect that runs at
\* the resting route pushes nothing and is not scheduled again: at most two
\* effects run from any route.  The effects being run, a loaded state leads
\* to the resting route with no effect pending, unless the state is Loading
\* again before.
C29_NoRedirectLoop ==
    /\ [][(EffectStep /\ ~is_loading(state)) =>
              /\ route' = RestingRoute(state)
              /\ route = RestingRoute(state) =>
                    /\ lastOp'.tokens = None
                    /\ ~effectPending']_vars
    /\ ~is_loading(state) ~>
          \/ is_loading(state)
          \/ route = RestingRoute(state) /\ ~effectPending

\* The startup task has left the session Unauthenticated and the guard of
\* the login view has run at its resting route: it has pushed nothing and no
\* effect is pending.
C29_Witness ==
    /\ state = Unauthenticated
    /\ route = "/login"
    /\ lastOp.op = "use_redirect_if_authenticated"
    /\ lastOp.tokens = None
    /\ ~effectPending
    /\ ~initPending

====
